---- MODULE Spec2Model ----
(***************************************************************************)
(* Authorization paths of playbook-dispatcher (RBAC / Kessel migration).   *)
(*                                                                         *)
(* The server handles one request at a time in this model: a request is    *)
(* taken from the idle state by the action of the handler that serves it,  *)
(* which runs the whole handler (middleware chain, client calls, query)    *)
(* against the answers the environment gives to the calls the handler      *)
(* makes, and records the request in inp and its outcome in out.           *)
(* Finish returns the server to idle.                                      *)
(*                                                                         *)
(* The feature-flag selector is the one handler modelled in two steps,     *)
(* one per flag it reads, with the Unleash client's background poll        *)
(* (RefreshFlags) able to run between them; SpecSelector is the            *)
(* specification of that routing.                                          *)
(***************************************************************************)
EXTENDS Integers, Sequences, FiniteSets, TLC

VARIABLES
    op,     \* "idle", or the name of the handler that served the last request
    inp,    \* the request: configuration, identity, environment answers
    out,    \* the outcome: response status, handler invoked, query executed
    flags,  \* the feature toggles the Unleash client holds at this moment
    dbRun,  \* the row of one run in the database
    cancels \* the cancel requests in flight on that run

vars == <<op, inp, out, flags, dbRun, cancels>>

----------------------------------------------------------------------------
(* HTTP status codes used by the handlers *)
StatusOK == 200
StatusCreated == 201
StatusBadRequest == 400
StatusUnauthorized == 401
StatusForbidden == 403
StatusNotFound == 404
StatusInternalServerError == 500
StatusServiceUnavailable == 503

(* Answers of the Kessel relations service to one Check call, as seen by   *)
(* the gRPC client: the relationship exists, it does not, the call failed, *)
(* or the caller's context was cancelled while the call was in flight      *)
(* (gRPC then returns an error as well).                                   *)
Answers == {"allow", "deny", "error", "canceled"}

IsErr(a) == a \in {"error", "canceled"}

NoInput == [none |-> TRUE]

----------------------------------------------------------------------------
(* kessel package: clients *)

MockClient(allowAll) == [kind |-> "mock", allowAll |-> allowAll]
RealClient == [kind |-> "impl", allowAll |-> FALSE]

Clients == {MockClient(TRUE), MockClient(FALSE), RealClient}

(* mockClient.Check / clientImpl.Check: (allowed, err) for one check whose *)
(* answer from the service is a                                            *)
Check(client, a) ==
    IF client.kind = "mock"
    THEN [allowed |-> client.allowAll, err |-> FALSE]
    ELSE IF IsErr(a)
         THEN [allowed |-> FALSE, err |-> TRUE]
         ELSE [allowed |-> (a = "allow"), err |-> FALSE]

(* The answers a client can see for one call: the mock never calls out *)
AnswersFor(client) == IF client.kind = "mock" THEN {"allow"} ELSE Answers

----------------------------------------------------------------------------
(* middleware.EnforceKesselPermissions (relation, resourceExtractor)       *)

KesselImplValues == {"impl", "mock", ""}

(* client selection at middleware construction *)
MiddlewareClient(impl) ==
    IF impl = "impl" THEN RealClient ELSE MockClient(TRUE)

(* NewKesselClientFromConfig: the mock only for "mock" *)
NewKesselClientFromConfig(impl) ==
    IF impl = "mock" THEN MockClient(TRUE) ELSE RealClient

OrgIDs == {"", "org1"}
Usernames == {"", "jdoe"}
Extractors == {"org", "run", "failing"}

Subject(username, orgID) == [type |-> "user", id |-> username, tenant |-> orgID]

(* resource extractors of the routes: org-level wildcard, or the run of    *)
(* the path; both take the tenant from the identity                        *)
ExtractResource(extractor, orgID) ==
    IF extractor = "org"
    THEN [type |-> "playbook-dispatcher/run", id |-> "*", tenant |-> orgID]
    ELSE [type |-> "playbook-dispatcher/run", id |-> "run-1", tenant |-> orgID]

(* the middleware with the error branch removed: a failed check falls      *)
(* through to the handler                                                  *)
EnforceKesselPermissionsFailOpen(impl, orgID, username, extractor, a) ==
    LET client == MiddlewareClient(impl)
        res == Check(client, a)
    IN  IF orgID = "" \/ username = ""
        THEN [status |-> StatusUnauthorized, handlerRan |-> FALSE,
              checked |-> FALSE, subjectStored |-> FALSE]
        ELSE IF extractor = "failing"
        THEN [status |-> StatusBadRequest, handlerRan |-> FALSE,
              checked |-> FALSE, subjectStored |-> FALSE]
        ELSE IF ~res.allowed /\ ~res.err
        THEN [status |-> StatusForbidden, handlerRan |-> FALSE,
              checked |-> TRUE, subjectStored |-> FALSE]
        ELSE [status |-> StatusOK, handlerRan |-> TRUE,
              checked |-> TRUE, subjectStored |-> TRUE]

(* The middleware function for one request.  a is the answer of the        *)
(* service to the check, should the middleware make one.                   *)
EnforceKesselPermissionsResult(impl, orgID, username, extractor, a) ==
    LET client == MiddlewareClient(impl)
        subject == Subject(username, orgID)
        res == Check(client, a)
    IN  IF orgID = "" \/ username = ""
        THEN [status |-> StatusUnauthorized, handlerRan |-> FALSE,
              checked |-> FALSE, subjectStored |-> FALSE]
        ELSE IF extractor = "failing"
        THEN [status |-> StatusBadRequest, handlerRan |-> FALSE,
              checked |-> FALSE, subjectStored |-> FALSE]
        ELSE IF res.err
        THEN [status |-> StatusServiceUnavailable, handlerRan |-> FALSE,
              checked |-> TRUE, subjectStored |-> FALSE]
        ELSE IF ~res.allowed
        THEN [status |-> StatusForbidden, handlerRan |-> FALSE,
              checked |-> TRUE, subjectStored |-> FALSE]
        ELSE [status |-> StatusOK, handlerRan |-> TRUE,
              checked |-> TRUE, subjectStored |-> TRUE]

EnforceKesselPermissions ==
    /\ op = "idle"
    /\ UNCHANGED <<flags, dbRun, cancels>>
    /\ \E impl \in KesselImplValues, orgID \in OrgIDs, username \in Usernames,
          extractor \in Extractors :
        \E a \in IF orgID = "" \/ username = "" \/ extractor = "failing"
                 THEN {"allow"} ELSE AnswersFor(MiddlewareClient(impl)) :
            /\ op' = "EnforceKesselPermissions"
            /\ inp' = [impl |-> impl, orgID |-> orgID, username |-> username,
                       extractor |-> extractor, answer |-> a,
                       client |-> MiddlewareClient(impl)]
            /\ out' = EnforceKesselPermissionsResult(impl, orgID, username,
                                                     extractor, a)

----------------------------------------------------------------------------
(* kessel package: service permissions (GetAllowedServices)                *)

KnownServices ==
    <<"remediations", "config-manager", "vulnerability", "advisor",
      "compliance", "drift", "policies", "resource-optimization">>

NumKnown == Len(KnownServices)

(* mockClient.CheckBatch: every result is allowAll, never an error *)
MockCheckBatch(client, n) ==
    [results |-> [i \in 1..n |-> client.allowAll], err |-> FALSE]

(* clientImpl.CheckBatch: the checks are issued one after the other; the   *)
(* first call that fails ends the batch with an error and no results       *)
RECURSIVE CheckBatchLoop(_, _, _)
CheckBatchLoop(answers, i, results) ==
    IF i > Len(answers)
    THEN [results |-> results, err |-> FALSE]
    ELSE IF IsErr(answers[i])
         THEN [results |-> <<>>, err |-> TRUE]
         ELSE CheckBatchLoop(answers, i + 1,
                             Append(results, answers[i] = "allow"))

(* the number of Check calls one clientImpl.CheckBatch makes: call i + 1   *)
(* is made when call i has returned without an error                       *)
RECURSIVE ChecksIssued(_, _)
ChecksIssued(answers, i) ==
    IF i > Len(answers) THEN Len(answers)
    ELSE IF IsErr(answers[i]) THEN i
    ELSE ChecksIssued(answers, i + 1)

(* a batch that records a failed call as "not allowed" and carries on *)
ImplCheckBatchSkipErrors(answers) ==
    [results |-> [i \in 1..Len(answers) |-> answers[i] = "allow"],
     err |-> FALSE]

ImplCheckBatch(answers) == CheckBatchLoop(answers, 1, <<>>)

(* a batch that returns the results gathered before the failing call *)
CheckBatchPartial(client, answers) ==
    IF client.kind = "mock"
    THEN MockCheckBatch(client, Len(answers))
    ELSE LET n == ChecksIssued(answers, 1)
         IN  IF \E i \in 1..Len(answers) : IsErr(answers[i])
             THEN [results |-> [i \in 1..(n - 1) |-> answers[i] = "allow"],
                   err |-> TRUE]
             ELSE ImplCheckBatch(answers)

CheckBatch(client, answers) ==
    IF client.kind = "mock"
    THEN MockCheckBatch(client, Len(answers))
    ELSE ImplCheckBatch(answers)

(* the services whose result is true, in catalog order *)
RECURSIVE CollectAllowed(_, _)
CollectAllowed(results, i) ==
    IF i > Len(results) THEN <<>>
    ELSE IF results[i]
         THEN <<KnownServices[i]>> \o CollectAllowed(results, i + 1)
         ELSE CollectAllowed(results, i + 1)

(* getServicePermissions: (services, filterRequired, err) *)
getServicePermissions(client, svcAnswers) ==
    LET batch == CheckBatch(client, svcAnswers)
    IN  IF batch.err
        THEN [services |-> <<>>, filterRequired |-> FALSE, err |-> TRUE]
        ELSE [services |-> CollectAllowed(batch.results, 1),
              filterRequired |-> TRUE, err |-> FALSE]

(* a resolution that lets the per-service checks decide even when the     *)
(* org-level check allowed                                                 *)
GetAllowedServicesNoOrgBypass(client, orgAnswer, svcAnswers) ==
    LET org == Check(client, orgAnswer)
    IN  IF org.err
        THEN [services |-> <<>>, filterRequired |-> FALSE, err |-> TRUE]
        ELSE getServicePermissions(client, svcAnswers)

(* GetAllowedServices: org-level check first, then the per-service checks *)
GetAllowedServices(client, orgAnswer, svcAnswers) ==
    LET org == Check(client, orgAnswer)
    IN  IF org.err
        THEN [services |-> <<>>, filterRequired |-> FALSE, err |-> TRUE]
        ELSE IF org.allowed
        THEN [services |-> <<>>, filterRequired |-> FALSE, err |-> FALSE]
        ELSE getServicePermissions(client, svcAnswers)

(* The answers of the relations service to the calls of one request, in    *)
(* the order the calls are made: once the request's context is cancelled   *)
(* every later call is cancelled too.                                      *)
CallAnswers(n) ==
    {a \in [1..n -> Answers] :
        \A i \in 1..(n - 1) : a[i] = "canceled" => a[i + 1] = "canceled"}

AllowAnswers(n) == [i \in 1..n |-> "allow"]

(* the answers a client can see for n calls *)
CallAnswersFor(client, n) ==
    IF client.kind = "mock" THEN {AllowAnswers(n)} ELSE CallAnswers(n)

Tail1(s) == SubSeq(s, 2, Len(s))

----------------------------------------------------------------------------
(* kessel package: CheckBatch on a list of checks, FilterAuthorizedResources *)

MaxIDs == 3

ResourceIDs == {"run-1", "run-2", "run-3"}

(* the lists of resource IDs a caller passes, repetitions included *)
IDLists == UNION {[1..k -> ResourceIDs] : k \in 0..MaxIDs}

(* the relationships the service holds: for each resource, whether the     *)
(* subject has the relation on it                                          *)
Relationships == [ResourceIDs -> {"allow", "deny"}]

(* the answers to the calls made for the checks on ids, in call order:     *)
(* the service answers each call from its relationships, unless the call   *)
(* fails; failAt is the first failing call (0: none fails)                 *)
BatchAnswers(ids, truth, failAt) ==
    [i \in 1..Len(ids) |->
        IF failAt # 0 /\ i >= failAt THEN "error" ELSE truth[ids[i]]]

(* one call of KesselClient.CheckBatch *)
ClientCheckBatch ==
    /\ op = "idle"
    /\ UNCHANGED <<flags, dbRun, cancels>>
    /\ \E client \in Clients, ids \in IDLists, truth \in Relationships :
        \E failAt \in IF client.kind = "mock" THEN {0} ELSE 0..Len(ids) :
            /\ op' = "CheckBatch"
            /\ inp' = [client |-> client, ids |-> ids, truth |-> truth,
                       failAt |-> failAt]
            /\ out' = CheckBatch(client, BatchAnswers(ids, truth, failAt))

(* the loop that keeps the IDs whose result is true *)
RECURSIVE AuthorizedIDs(_, _, _)
AuthorizedIDs(resourceIDs, results, i) ==
    IF i > Len(results) THEN <<>>
    ELSE IF results[i]
         THEN <<resourceIDs[i]>> \o AuthorizedIDs(resourceIDs, results, i + 1)
         ELSE AuthorizedIDs(resourceIDs, results, i + 1)

(* a filter that hands back every ID when the batch fails *)
FilterAuthorizedResourcesFailOpen(client, resourceIDs, answers) ==
    IF Len(resourceIDs) = 0
    THEN [authorized |-> <<>>, err |-> FALSE, called |-> FALSE]
    ELSE LET batch == CheckBatch(client, answers)
         IN  IF batch.err
             THEN [authorized |-> resourceIDs, err |-> FALSE, called |-> TRUE]
             ELSE [authorized |-> AuthorizedIDs(resourceIDs, batch.results, 1),
                   err |-> FALSE, called |-> TRUE]

(* FilterAuthorizedResources: (authorized, err), and whether the client    *)
(* was called                                                              *)
FilterAuthorizedResourcesResult(client, resourceIDs, answers) ==
    IF Len(resourceIDs) = 0
    THEN [authorized |-> <<>>, err |-> FALSE, called |-> FALSE]
    ELSE LET batch == CheckBatch(client, answers)
         IN  IF batch.err
             THEN [authorized |-> <<>>, err |-> TRUE, called |-> TRUE]
             ELSE [authorized |-> AuthorizedIDs(resourceIDs, batch.results, 1),
                   err |-> FALSE, called |-> TRUE]

FilterAuthorizedResources ==
    /\ op = "idle"
    /\ UNCHANGED <<flags, dbRun, cancels>>
    /\ \E client \in Clients, ids \in IDLists, truth \in Relationships :
        \E failAt \in IF client.kind = "mock" THEN {0} ELSE 0..Len(ids) :
            /\ op' = "FilterAuthorizedResources"
            /\ inp' = [client |-> client, ids |-> ids, truth |-> truth,
                       failAt |-> failAt]
            /\ out' = FilterAuthorizedResourcesResult(
                          client, ids, BatchAnswers(ids, truth, failAt))

----------------------------------------------------------------------------
(* controllers: ApiRunsListWithServiceFiltering                            *)

NoQuery == [executed |-> FALSE, filtered |-> FALSE, services |-> <<>>]

(* the controller with the filter applied only to a non-empty list, as    *)
(* the RBAC controller does                                                *)
ApiRunsListFilterIfNonEmpty(client, answers, dbErr) ==
    LET gas == GetAllowedServices(client, answers[1], Tail1(answers))
        query == [executed |-> TRUE, filtered |-> Len(gas.services) > 0,
                  services |-> gas.services]
    IN  IF gas.err
        THEN [status |-> StatusServiceUnavailable, gas |-> gas,
              query |-> NoQuery, runs |-> "none"]
        ELSE IF dbErr
        THEN [status |-> StatusInternalServerError, gas |-> gas,
              query |-> query, runs |-> "none"]
        ELSE [status |-> StatusOK, gas |-> gas,
              query |-> query, runs |-> "query"]

(* the controller: answers[1] answers the org-level check, answers[2..]    *)
(* the per-service checks; dbErr is the outcome of the query               *)
ApiRunsListWithServiceFilteringResult(client, answers, dbErr) ==
    LET gas == GetAllowedServices(client, answers[1], Tail1(answers))
        query == [executed |-> TRUE, filtered |-> gas.filterRequired,
                  services |-> gas.services]
    IN  IF gas.err
        THEN [status |-> StatusServiceUnavailable, gas |-> gas,
              query |-> NoQuery, runs |-> "none"]
        ELSE IF gas.filterRequired /\ Len(gas.services) = 0
        THEN [status |-> StatusOK, gas |-> gas,
              query |-> NoQuery, runs |-> "empty"]
        ELSE IF dbErr
        THEN [status |-> StatusInternalServerError, gas |-> gas,
              query |-> query, runs |-> "none"]
        ELSE [status |-> StatusOK, gas |-> gas,
              query |-> query, runs |-> "query"]

(* whether the controller reaches the database for these answers *)
ReachesQuery(client, answers) ==
    ApiRunsListWithServiceFilteringResult(client, answers, FALSE).query.executed

ApiRunsListWithServiceFiltering ==
    /\ op = "idle"
    /\ UNCHANGED <<flags, dbRun, cancels>>
    /\ \E client \in Clients :
        \E answers \in CallAnswersFor(client, NumKnown + 1) :
            \E dbErr \in IF ReachesQuery(client, answers)
                         THEN BOOLEAN ELSE {FALSE} :
                /\ op' = "ApiRunsListWithServiceFiltering"
                /\ inp' = [client |-> client, answers |-> answers,
                           dbErr |-> dbErr]
                /\ out' = ApiRunsListWithServiceFilteringResult(
                              client, answers, dbErr)

----------------------------------------------------------------------------
(* kessel package: the ResourceChecks the helpers and the middleware build *)

Tenants == {"org1", "org2"}

ResourceCheck(subject, relation, resource) ==
    [subject |-> subject, relation |-> relation, resource |-> resource]

(* a helper that files every resource under one fixed organisation *)
DispatcherResourceCheckFixedTenant(subject, relation, resourceType, resourceID) ==
    ResourceCheck(subject, relation,
                  [type |-> resourceType, id |-> resourceID,
                   tenant |-> "org1"])

(* DispatcherResourceCheck *)
DispatcherResourceCheck(subject, relation, resourceType, resourceID) ==
    ResourceCheck(subject, relation,
                  [type |-> resourceType, id |-> resourceID,
                   tenant |-> subject.tenant])

(* orgCheck of GetAllowedServices and HasServiceAccess *)
OrgCheck(subject) ==
    ResourceCheck(subject, "read",
                  [type |-> "playbook-dispatcher/org", id |-> subject.tenant,
                   tenant |-> subject.tenant])

(* the check on one service *)
ServiceCheck(subject, service) ==
    ResourceCheck(subject, "reader",
                  [type |-> "playbook-dispatcher/service-permission",
                   id |-> service, tenant |-> subject.tenant])

(* the checks of getServicePermissions, one per known service *)
ServiceChecks(subject) ==
    [i \in 1..NumKnown |-> ServiceCheck(subject, KnownServices[i])]

(* the check of the enforcement middleware: subject and resource both      *)
(* come from the identity of the request                                   *)
MiddlewareCheck(orgID, username, extractor) ==
    ResourceCheck(Subject(username, orgID), "read",
                  ExtractResource(extractor, orgID))

CheckBuilders ==
    {"DispatcherResourceCheck", "GetAllowedServices", "HasServiceAccess",
     "EnforceKesselOrgPermissions", "runResourceExtractor"}

(* the checks a builder issues for a subject of organisation tenant *)
ChecksBuilt(builder, tenant) ==
    LET subject == Subject("jdoe", tenant)
    IN  CASE builder = "DispatcherResourceCheck" ->
                 <<DispatcherResourceCheck(subject, "read",
                                           "playbook-dispatcher/run",
                                           "run-1")>>
          [] builder = "GetAllowedServices" ->
                 <<OrgCheck(subject)>> \o ServiceChecks(subject)
          [] builder = "HasServiceAccess" ->
                 <<OrgCheck(subject), ServiceCheck(subject, KnownServices[1])>>
          [] builder = "EnforceKesselOrgPermissions" ->
                 <<MiddlewareCheck(tenant, "jdoe", "org")>>
          [] builder = "runResourceExtractor" ->
                 <<MiddlewareCheck(tenant, "jdoe", "run")>>

(* owner: the organisation the run asked for belongs to; no builder looks  *)
(* at it                                                                   *)
IssueChecks ==
    /\ op = "idle"
    /\ UNCHANGED <<flags, dbRun, cancels>>
    /\ \E builder \in CheckBuilders, tenant \in Tenants, owner \in Tenants :
        /\ op' = "IssueChecks"
        /\ inp' = [builder |-> builder, tenant |-> tenant, owner |-> owner]
        /\ out' = [checks |-> ChecksBuilt(builder, tenant)]

----------------------------------------------------------------------------
(* controllers: ApiRunsCreateWithServiceCheck                              *)

(* HasServiceAccess: org-level check, then the check on the service *)
HasServiceAccess(client, orgAnswer, svcAnswer) ==
    LET org == Check(client, orgAnswer)
    IN  IF org.err THEN [allowed |-> FALSE, err |-> TRUE]
        ELSE IF org.allowed THEN [allowed |-> TRUE, err |-> FALSE]
        ELSE Check(client, svcAnswer)

(* the services a run can be created for: one of the catalog, one not *)
CreateServices == {KnownServices[1], "unknown"}

(* a controller that answers a failed check like a denial *)
ApiRunsCreateErrorIsForbidden(client, service, answers) ==
    LET hsa == HasServiceAccess(client, answers[1], answers[2])
    IN  IF hsa.err \/ ~hsa.allowed
        THEN [status |-> StatusForbidden, created |-> FALSE, hsa |-> hsa]
        ELSE [status |-> StatusCreated, created |-> TRUE, hsa |-> hsa]

(* the controller: answers[1] answers the org-level check, answers[2] the  *)
(* check on the service                                                    *)
ApiRunsCreateWithServiceCheckResult(client, service, answers) ==
    LET hsa == HasServiceAccess(client, answers[1], answers[2])
    IN  IF hsa.err
        THEN [status |-> StatusServiceUnavailable, created |-> FALSE,
              hsa |-> hsa]
        ELSE IF ~hsa.allowed
        THEN [status |-> StatusForbidden, created |-> FALSE, hsa |-> hsa]
        ELSE [status |-> StatusCreated, created |-> TRUE, hsa |-> hsa]

(* the second check is made only after an org-level deny *)
CreateAnswersFor(client) ==
    IF client.kind = "mock" THEN {AllowAnswers(2)}
    ELSE {a \in CallAnswers(2) : a[1] # "deny" => a[2] = a[1]}

ApiRunsCreateWithServiceCheck ==
    /\ op = "idle"
    /\ UNCHANGED <<flags, dbRun, cancels>>
    /\ \E client \in Clients, service \in CreateServices :
        \E answers \in CreateAnswersFor(client) :
            /\ op' = "ApiRunsCreateWithServiceCheck"
            /\ inp' = [client |-> client, service |-> service,
                       answers |-> answers]
            /\ out' = ApiRunsCreateWithServiceCheckResult(client, service,
                                                          answers)

----------------------------------------------------------------------------
(* kessel package: HasServiceAccess and GetAllowedServices on one subject  *)

(* the service names whose relationships vary: two of the catalog and one  *)
(* that the other plans list but KnownServices does not; the subject has   *)
(* no relationship on the remaining catalog services                       *)
VariedServices == {KnownServices[1], KnownServices[2], "tasks"}

ServiceNames ==
    {KnownServices[i] : i \in 1..NumKnown} \cup VariedServices

(* what the service answers to the check on each service name *)
ServiceAnswerMaps ==
    {m \in [ServiceNames -> {"allow", "deny", "error"}] :
        \A s \in ServiceNames \ VariedServices : m[s] = "deny"}

AllDenyMap == [s \in ServiceNames |-> "deny"]

(* both functions called for the same subject against the same answers *)
CompareServiceAccess ==
    /\ op = "idle"
    /\ UNCHANGED <<flags, dbRun, cancels>>
    /\ \E client \in Clients, service \in VariedServices :
        \E orgAnswer \in IF client.kind = "mock" THEN {"allow"}
                         ELSE {"allow", "deny", "error"} :
        \E m \in IF client.kind = "mock" \/ orgAnswer # "deny"
                 THEN {AllDenyMap} ELSE ServiceAnswerMaps :
            /\ op' = "CompareServiceAccess"
            /\ inp' = [client |-> client, service |-> service,
                       orgAnswer |-> orgAnswer, answers |-> m]
            /\ out' = [hsa |-> HasServiceAccess(client, orgAnswer, m[service]),
                       gas |-> GetAllowedServices(
                                   client, orgAnswer,
                                   [i \in 1..NumKnown |-> m[KnownServices[i]]])]

----------------------------------------------------------------------------
(* kessel package: filters.go                                              *)

(* FilterByServicePermission as it stands: no filtering, no error *)
FilterByServicePermission ==
    [services |-> <<>>, filteringRequired |-> FALSE, err |-> FALSE]

(* the lists of catalog services, in catalog order *)
ServiceLists ==
    {CollectAllowed(mask, 1) : mask \in [1..NumKnown -> BOOLEAN]}

(* every result the signature of FilterByServicePermission admits *)
FilterResults ==
    [services : ServiceLists, filteringRequired : BOOLEAN, err : BOOLEAN]

(* ApplyServiceFilter, as a function of what FilterByServicePermission     *)
(* returned to it                                                          *)
ApplyServiceFilterResult(r) ==
    IF r.err
    THEN [services |-> <<>>, shouldFilter |-> FALSE, err |-> TRUE]
    ELSE IF ~r.filteringRequired \/ Len(r.services) = 0
    THEN [services |-> <<>>, shouldFilter |-> FALSE, err |-> FALSE]
    ELSE [services |-> r.services, shouldFilter |-> TRUE, err |-> FALSE]

ApplyServiceFilter ==
    /\ op = "idle"
    /\ UNCHANGED <<flags, dbRun, cancels>>
    /\ \E r \in FilterResults :
        /\ op' = "ApplyServiceFilter"
        /\ inp' = [result |-> r, stub |-> (r = FilterByServicePermission)]
        /\ out' = ApplyServiceFilterResult(r)

----------------------------------------------------------------------------
(* rbac package: permissions in the attribute-filter encoding              *)

MaxPerms == 2

RunReadPermission == "playbook-dispatcher:run:read"
RunWritePermission == "playbook-dispatcher:run:write"

(* fmt.Sprintf("playbook-dispatcher:%s_run:read", service) *)
NewFormatPerm(service) == "playbook-dispatcher:" \o service \o "_run:read"

(* the catalog the controllers pass to GetAllowedServicesFromPermissions *)
PlanKnownServices == <<"remediations", "config_manager", "tasks">>

(* an attribute filter as RBAC sends it: the value is a JSON string for    *)
(* "equal" and a JSON array for "in"                                       *)
EqualFilter(key, value) ==
    [key |-> key, operation |-> "equal", shape |-> "string",
     value |-> <<value>>]
InFilter(key, values) ==
    [key |-> key, operation |-> "in", shape |-> "array", value |-> values]

AttributeFilters ==
    {EqualFilter("service", "remediations"),
     InFilter("service", <<"tasks", "config_manager">>),
     EqualFilter("service", "config-manager"),
     EqualFilter("group", "remediations")}

(* one Access entry: permission and resourceDefinitions *)
Access(permission, defs) ==
    [permission |-> permission, resourceDefinitions |-> defs]

AccessEntries ==
    {Access(RunReadPermission, <<>>)}
    \cup {Access(RunReadPermission, <<f>>) : f \in AttributeFilters}
    \cup {Access(NewFormatPerm("remediations"), <<>>),
          Access(NewFormatPerm("config_manager"), <<>>),
          Access(RunWritePermission, <<>>),
          Access(RunWritePermission, <<EqualFilter("service", "tasks")>>)}

PermListsUpTo(n) == UNION {[1..k -> AccessEntries] : k \in 0..n}

PermLists == PermListsUpTo(MaxPerms)

(* hasServiceInAttributeFilter: the filter unmarshals either as an equal   *)
(* filter (string value) or as an in filter (array value)                  *)
hasServiceInAttributeFilter(resourceDefs, service) ==
    \E i \in 1..Len(resourceDefs) :
        LET f == resourceDefs[i]
        IN  \/ /\ f.shape = "string"
               /\ f.key = "service"
               /\ f.value[1] = service
            \/ /\ f.shape = "array"
               /\ f.key = "service"
               /\ \E j \in 1..Len(f.value) : f.value[j] = service

(* a loop that stops at the first run:read entry, whether or not its       *)
(* filter names the service                                                *)
ServiceGrantedFirstEntryOnly(permissions, service) ==
    \/ \E i \in 1..Len(permissions) :
           permissions[i].permission = NewFormatPerm(service)
    \/ \E i \in 1..Len(permissions) :
           /\ permissions[i].permission = RunReadPermission
           /\ \A j \in 1..(i - 1) :
                  permissions[j].permission # RunReadPermission
           /\ hasServiceInAttributeFilter(
                  permissions[i].resourceDefinitions, service)

(* the loop over knownServices: new-format permission first, then the old  *)
(* format with its attribute filter                                        *)
ServiceGranted(permissions, service) ==
    \/ \E i \in 1..Len(permissions) :
           permissions[i].permission = NewFormatPerm(service)
    \/ \E i \in 1..Len(permissions) :
           /\ permissions[i].permission = RunReadPermission
           /\ hasServiceInAttributeFilter(
                  permissions[i].resourceDefinitions, service)

RECURSIVE GrantedServices(_, _, _)
GrantedServices(permissions, knownServices, i) ==
    IF i > Len(knownServices) THEN <<>>
    ELSE IF ServiceGranted(permissions, knownServices[i])
         THEN <<knownServices[i]>>
              \o GrantedServices(permissions, knownServices, i + 1)
         ELSE GrantedServices(permissions, knownServices, i + 1)

(* a resolution that answers the whole catalog whenever no service was     *)
(* granted by name                                                         *)
GetAllowedServicesEmptyIsAll(permissions, knownServices) ==
    LET allowedServices == GrantedServices(permissions, knownServices, 1)
    IN  IF Len(allowedServices) = 0
        THEN knownServices
        ELSE allowedServices

(* GetAllowedServicesFromPermissions *)
GetAllowedServicesFromPermissions(permissions, knownServices) ==
    LET allowedServices == GrantedServices(permissions, knownServices, 1)
    IN  IF /\ Len(allowedServices) = 0
           /\ \E i \in 1..Len(permissions) :
                  /\ permissions[i].permission = RunReadPermission
                  /\ Len(permissions[i].resourceDefinitions) = 0
        THEN knownServices
        ELSE allowedServices

ResolveAttributePermissions ==
    /\ op = "idle"
    /\ UNCHANGED <<flags, dbRun, cancels>>
    /\ \E permissions \in PermLists :
        /\ op' = "GetAllowedServicesFromPermissions"
        /\ inp' = [permissions |-> permissions]
        /\ out' = [services |-> GetAllowedServicesFromPermissions(
                                    permissions, PlanKnownServices)]

----------------------------------------------------------------------------
(* Implementation guide: auth selector, RBAC and Kessel middlewares,       *)
(* RunsList                                                                *)

MaxRbacPerms == 1

(* what the RBAC service answers to GetAccess: an error (service           *)
(* unavailable, or any other failure), or the caller's access list         *)
RbacAnswer(err, access) == [err |-> err, access |-> access]

RbacAnswers ==
    {RbacAnswer("unavailable", <<>>), RbacAnswer("other", <<>>)}
    \cup {RbacAnswer("none", l) : l \in PermListsUpTo(MaxRbacPerms)}

NoRbacAnswer == RbacAnswer("none", <<>>)

NoKesselAuth == [set |-> FALSE, AllowedServices |-> <<>>]

(* what a middleware hands on: either it answered the request itself       *)
(* (pass = FALSE, status) or it called next                                *)
Rejected(status) ==
    [pass |-> FALSE, status |-> status, permissions |-> <<>>,
     kesselAuth |-> NoKesselAuth]

(* an RBAC middleware that lets a caller without any access through *)
EnforcePermissionsNoEmptyCheck(rbac) ==
    IF rbac.err = "unavailable" THEN Rejected(StatusServiceUnavailable)
    ELSE IF rbac.err # "none" THEN Rejected(StatusInternalServerError)
    ELSE [pass |-> TRUE, status |-> StatusOK, permissions |-> rbac.access,
          kesselAuth |-> NoKesselAuth]

(* EnforcePermissions: the RBAC middleware *)
EnforcePermissions(rbac) ==
    IF rbac.err = "unavailable" THEN Rejected(StatusServiceUnavailable)
    ELSE IF rbac.err # "none" THEN Rejected(StatusInternalServerError)
    ELSE IF Len(rbac.access) = 0 THEN Rejected(StatusForbidden)
    ELSE [pass |-> TRUE, status |-> StatusOK, permissions |-> rbac.access,
          kesselAuth |-> NoKesselAuth]

ServiceKeys == {"remediations", "tasks", "config_manager", "config-manager"}

ServicePermissionMap ==
    [service \in ServiceKeys |->
        CASE service = "remediations" ->
                 "playbook_dispatcher_remediations_run_view"
          [] service = "tasks" -> "playbook_dispatcher_tasks_run_view"
          [] service = "config_manager" ->
                 "playbook_dispatcher_config_manager_run_view"
          [] service = "config-manager" ->
                 "playbook_dispatcher_config_manager_run_view"]

(* the orders in which a range over the map can visit its keys *)
KeyOrders ==
    {o \in [1..Cardinality(ServiceKeys) -> ServiceKeys] :
        \A i, j \in DOMAIN o : o[i] = o[j] => i = j}

(* GetServicesForPermissions, the map visited in the given order *)
RECURSIVE ServicesInOrder(_, _, _)
ServicesInOrder(allowedPermissions, order, i) ==
    IF i > Len(order) THEN <<>>
    ELSE IF ServicePermissionMap[order[i]] \in allowedPermissions
         THEN <<IF order[i] = "config-manager"
                THEN "config_manager" ELSE order[i]>>
              \o ServicesInOrder(allowedPermissions, order, i + 1)
         ELSE ServicesInOrder(allowedPermissions, order, i + 1)

GetServicesForPermissions(allowedPermissions, order) ==
    ServicesInOrder(allowedPermissions, order, 1)

(* the Kessel permissions a user can hold *)
KesselPermissions == {ServicePermissionMap[k] : k \in ServiceKeys}

(* two resolutions from the same check results; each ranges over the map   *)
(* in the order the runtime picks for it                                   *)
ResolveServicesTwice ==
    /\ op = "idle"
    /\ UNCHANGED <<flags, dbRun, cancels>>
    /\ \E allowedPermissions \in SUBSET KesselPermissions :
        \E order1 \in KeyOrders, order2 \in KeyOrders :
            /\ op' = "GetServicesForPermissions"
            /\ inp' = [allowedPermissions |-> allowedPermissions]
            /\ out' = [first |-> GetServicesForPermissions(
                                     allowedPermissions, order1),
                       second |-> GetServicesForPermissions(
                                      allowedPermissions, order2)]

IdentityTypes == {"User", "ServiceAccount", "System"}

(* extractPrincipalID fails for any other identity type *)
PrincipalOK(idType) == idType \in {"User", "ServiceAccount"}

(* answers of Kessel to CheckWorkspacePermission; a cancelled call is an   *)
(* error like any other here                                               *)
GuideAnswers == {"allow", "deny", "error"}

GuideAllAllow == [k \in ServiceKeys |-> "allow"]

(* EnforceKesselPermissions(cfg) of the guide.  kenv: the outcome of the   *)
(* workspace lookup and the answer to the check made for each map key;     *)
(* the loop ends with 500 at the first failing check, whichever key it is  *)
EnforceKesselPermissionsGuide(cfg, id, kenv, order) ==
    LET mock == cfg.impl # "impl"
        answers == IF mock THEN GuideAllAllow ELSE kenv.answers
        allowedPermissions ==
            {ServicePermissionMap[k] : k \in {x \in ServiceKeys :
                                                 answers[x] = "allow"}}
        allowedServices == GetServicesForPermissions(allowedPermissions, order)
    IN  IF ~cfg.kesselEnabled
        THEN [pass |-> TRUE, status |-> StatusOK, permissions |-> <<>>,
              kesselAuth |-> NoKesselAuth]
        ELSE IF id.orgID = "" THEN Rejected(StatusForbidden)
        ELSE IF ~mock /\ kenv.wsErr THEN Rejected(StatusInternalServerError)
        ELSE IF ~PrincipalOK(id.type) THEN Rejected(StatusForbidden)
        ELSE IF \E k \in ServiceKeys : answers[k] = "error"
        THEN Rejected(StatusInternalServerError)
        ELSE IF Len(allowedServices) = 0 THEN Rejected(StatusForbidden)
        ELSE [pass |-> TRUE, status |-> StatusOK, permissions |-> <<>>,
              kesselAuth |-> [set |-> TRUE,
                              AllowedServices |-> allowedServices]]

(* a log-only middleware that returns what the Kessel middleware returned *)
logOnlyKesselPropagates(cfg, id, kenv, order, before) ==
    LET k == EnforceKesselPermissionsGuide(cfg, id, kenv, order)
    IN  IF k.pass
        THEN [before EXCEPT !.kesselAuth = k.kesselAuth]
        ELSE k

(* logOnlyKesselMiddleware: the Kessel middleware runs with a next that    *)
(* does nothing, its result is logged, and the real next is always called; *)
(* the auth context the Kessel middleware stored stays in the request      *)
logOnlyKesselMiddleware(cfg, id, kenv, order, before) ==
    LET k == EnforceKesselPermissionsGuide(cfg, id, kenv, order)
    IN  [before EXCEPT !.kesselAuth = k.kesselAuth]

AuthSystems == {"rbac", "kessel", "both", ""}

(* SelectAuthorizationMiddleware: the chain for a value of auth.system *)
SelectAuthorizationMiddleware(authSystem) ==
    CASE authSystem = "kessel" -> "kessel"
      [] authSystem = "rbac" -> "rbac"
      [] authSystem = "both" -> "both"
      [] OTHER -> "rbac"

(* the selected chain run on one request; the result is what reaches the   *)
(* controller, or the rejection                                            *)
RunAuthorization(cfg, id, rbac, kenv, order) ==
    LET selected == SelectAuthorizationMiddleware(cfg.authSystem)
    IN  CASE selected = "kessel" ->
                 EnforceKesselPermissionsGuide(cfg, id, kenv, order)
          [] selected = "rbac" -> EnforcePermissions(rbac)
          [] selected = "both" ->
                 LET r == EnforcePermissions(rbac)
                 IN  IF r.pass
                     THEN logOnlyKesselMiddleware(cfg, id, kenv, order, r)
                     ELSE r

(* which middlewares of the selected chain are invoked for a request: in   *)
(* a chain a middleware is invoked when the one before it called next      *)
MiddlewaresRun(cfg, rbac) ==
    LET selected == SelectAuthorizationMiddleware(cfg.authSystem)
    IN  CASE selected = "kessel" -> [rbac |-> FALSE, kessel |-> TRUE]
          [] selected = "rbac" -> [rbac |-> TRUE, kessel |-> FALSE]
          [] selected = "both" ->
                 [rbac |-> TRUE, kessel |-> EnforcePermissions(rbac).pass]

(* GetPredicateValues(permissions, key): the values of every attribute     *)
(* filter on the key, in order                                             *)
RECURSIVE FilterValues(_, _, _)
FilterValues(resourceDefs, key, i) ==
    IF i > Len(resourceDefs) THEN <<>>
    ELSE (IF resourceDefs[i].key = key THEN resourceDefs[i].value ELSE <<>>)
         \o FilterValues(resourceDefs, key, i + 1)

RECURSIVE GetPredicateValuesFrom(_, _, _)
GetPredicateValuesFrom(permissions, key, i) ==
    IF i > Len(permissions) THEN <<>>
    ELSE FilterValues(permissions[i].resourceDefinitions, key, 1)
         \o GetPredicateValuesFrom(permissions, key, i + 1)

GetPredicateValues(permissions, key) ==
    GetPredicateValuesFrom(permissions, key, 1)

(* the service filter RunsList puts on the query *)
RunsListFilter(authSystem, ctx) ==
    CASE authSystem = "kessel" ->
             IF ctx.kesselAuth.set /\ Len(ctx.kesselAuth.AllowedServices) > 0
             THEN [executed |-> TRUE, filtered |-> TRUE,
                   services |-> ctx.kesselAuth.AllowedServices]
             ELSE [executed |-> TRUE, filtered |-> FALSE, services |-> <<>>]
      [] authSystem \in {"rbac", "both"} ->
             LET allowedServices == GetPredicateValues(ctx.permissions,
                                                       "service")
             IN  IF Len(allowedServices) > 0
                 THEN [executed |-> TRUE, filtered |-> TRUE,
                       services |-> allowedServices]
                 ELSE [executed |-> TRUE, filtered |-> FALSE,
                       services |-> <<>>]
      [] OTHER -> [executed |-> TRUE, filtered |-> FALSE, services |-> <<>>]

(* one request to the runs list: authorization chain, then RunsList *)
RunsListResult(cfg, id, rbac, kenv, order, dbErr) ==
    LET ctx == RunAuthorization(cfg, id, rbac, kenv, order)
    IN  IF ~ctx.pass
        THEN [status |-> ctx.status, handlerRan |-> FALSE, query |-> NoQuery,
              kesselAuth |-> ctx.kesselAuth]
        ELSE [status |-> IF dbErr THEN StatusInternalServerError
                         ELSE StatusOK,
              handlerRan |-> TRUE,
              query |-> RunsListFilter(cfg.authSystem, ctx),
              kesselAuth |-> ctx.kesselAuth]

NoKenv == [wsErr |-> FALSE, answers |-> GuideAllAllow]

RunsList ==
    /\ op = "idle"
    /\ UNCHANGED <<flags, dbRun, cancels>>
    /\ \E authSystem \in AuthSystems, kesselEnabled \in BOOLEAN,
          impl \in {"impl", "mock"}, orgID \in OrgIDs,
          idType \in IdentityTypes :
        LET cfg == [authSystem |-> authSystem,
                    kesselEnabled |-> kesselEnabled, impl |-> impl]
            id == [orgID |-> orgID, type |-> idType]
            selected == SelectAuthorizationMiddleware(authSystem)
        IN  \E rbac \in IF selected = "kessel" THEN {NoRbacAnswer}
                        ELSE RbacAnswers :
            LET kesselRuns ==
                    /\ selected \in {"kessel", "both"}
                    /\ selected = "both" => EnforcePermissions(rbac).pass
                    /\ kesselEnabled /\ orgID # "" /\ impl = "impl"
            IN  \E wsErr \in IF kesselRuns THEN BOOLEAN ELSE {FALSE} :
                \E answers \in IF kesselRuns /\ ~wsErr /\ PrincipalOK(idType)
                               THEN [ServiceKeys -> GuideAnswers]
                               ELSE {GuideAllAllow} :
                \E order \in KeyOrders :
                LET kenv == [wsErr |-> wsErr, answers |-> answers]
                    reaches == RunsListResult(cfg, id, rbac, kenv, order,
                                              FALSE).handlerRan
                IN  \E dbErr \in IF reaches THEN BOOLEAN ELSE {FALSE} :
                    /\ op' = "RunsList"
                    /\ inp' = [cfg |-> cfg, id |-> id, rbac |-> rbac,
                               kenv |-> kenv, dbErr |-> dbErr]
                    /\ out' = RunsListResult(cfg, id, rbac, kenv, order,
                                             dbErr)

----------------------------------------------------------------------------
(* Implementation plan: getAllowedServices in the runs-list controller     *)

(* options.SetDefault("kessel.fallback_rbac", true) *)
DefaultFallbackRbac == TRUE

PlanAnswers == {"allow", "deny", "error"}

PlanAllAllow == [i \in 1..Len(PlanKnownServices) |-> "allow"]

(* the loop of getKesselAllowedServices: a failed check is logged and the  *)
(* loop continues with the next service                                    *)
RECURSIVE PlanCheckLoop(_, _, _)
PlanCheckLoop(knownServices, answers, i) ==
    IF i > Len(knownServices) THEN <<>>
    ELSE IF answers[i] = "allow"
         THEN <<knownServices[i]>>
              \o PlanCheckLoop(knownServices, answers, i + 1)
         ELSE PlanCheckLoop(knownServices, answers, i + 1)

(* getKesselAllowedServices: nil when the user ID cannot be extracted or   *)
(* the workspace lookup fails                                              *)
getKesselAllowedServices(id, kenv, knownServices) ==
    IF ~PrincipalOK(id.type) THEN <<>>
    ELSE IF kenv.wsErr THEN <<>>
    ELSE PlanCheckLoop(knownServices, kenv.answers, 1)

(* getAllowedServices: Kessel when kessel.enabled, else the permissions    *)
(* the RBAC middleware stored                                              *)
getAllowedServices(cfg, id, permissions, kenv) ==
    IF cfg.kesselEnabled
    THEN getKesselAllowedServices(id, kenv, PlanKnownServices)
    ELSE GetAllowedServicesFromPermissions(permissions, PlanKnownServices)

(* the query of the controller: the filter is added for a non-empty list *)
PlanQuery(allowedServices) ==
    IF Len(allowedServices) > 0
    THEN [executed |-> TRUE, filtered |-> TRUE, services |-> allowedServices]
    ELSE [executed |-> TRUE, filtered |-> FALSE, services |-> <<>>]

(* one request to the runs list: RBAC middleware, then the controller *)
PlanRunsListResult(cfg, id, rbac, kenv, dbErr) ==
    LET ctx == EnforcePermissions(rbac)
    IN  IF ~ctx.pass
        THEN [status |-> ctx.status, handlerRan |-> FALSE, query |-> NoQuery]
        ELSE [status |-> IF dbErr THEN StatusInternalServerError
                         ELSE StatusOK,
              handlerRan |-> TRUE,
              query |-> PlanQuery(getAllowedServices(cfg, id,
                                                     ctx.permissions, kenv))]

PlanRunsList ==
    /\ op = "idle"
    /\ UNCHANGED <<flags, dbRun, cancels>>
    /\ \E kesselEnabled \in BOOLEAN, fallbackRbac \in BOOLEAN,
          idType \in IdentityTypes, rbac \in RbacAnswers :
        LET cfg == [kesselEnabled |-> kesselEnabled,
                    fallbackRbac |-> fallbackRbac]
            id == [orgID |-> "org1", type |-> idType]
            pass == EnforcePermissions(rbac).pass
            lookup == pass /\ kesselEnabled /\ PrincipalOK(idType)
        IN  \E wsErr \in IF lookup THEN BOOLEAN ELSE {FALSE} :
            \E answers \in IF lookup /\ ~wsErr
                           THEN [1..Len(PlanKnownServices) -> PlanAnswers]
                           ELSE {PlanAllAllow} :
            \E dbErr \in IF pass THEN BOOLEAN ELSE {FALSE} :
                LET kenv == [wsErr |-> wsErr, answers |-> answers]
                IN  /\ op' = "PlanRunsList"
                    /\ inp' = [cfg |-> cfg, id |-> id, rbac |-> rbac,
                               kenv |-> kenv, lookup |-> lookup,
                               dbErr |-> dbErr]
                    /\ out' = PlanRunsListResult(cfg, id, rbac, kenv, dbErr)

----------------------------------------------------------------------------
(* Feature flags: the Unleash client and the AuthSelector                  *)

MaxRefreshes == 1

(* the toggles as the client's repository holds them after a poll:         *)
(* kessel-auth-enabled is on, off, or not known to the client; the         *)
(* kessel-auth-mode variant is a name ("disabled" when there is none)      *)
FlagVariants == {"", "disabled", "validation", "kessel"}

FlagStates == [enabled : {"on", "off", "unknown"}, variant : FlagVariants]

DefaultFlags == [enabled |-> "off", variant |-> "disabled"]

(* the environment-variable configuration the selector falls back to *)
SelectorConfigs ==
    [KesselEnabled : BOOLEAN, KesselAuthMode : {"rbac", "kessel", "validation"}]

(* unleashClient.IsEnabledWithFallback(features.KesselAuthEnabled, ...) *)
IsEnabledWithFallback(f, fallback) ==
    IF f.enabled = "unknown" THEN fallback ELSE f.enabled = "on"

(* unleashClient.GetVariant(features.KesselAuthMode, ...) *)
GetVariant(f) == f.variant

(* the switch on mode: the chain the request is handed to, named as the    *)
(* auth.system values name them                                            *)
ModeMiddleware(mode) ==
    CASE mode = "validation" -> "both"
      [] mode = "kessel" -> "kessel"
      [] OTHER -> "rbac"

(* the mode the selector uses for a variant it read *)
EffectiveMode(cfg, variant) ==
    IF variant = "" THEN cfg.KesselAuthMode ELSE variant

(* the chain selected when both reads see the toggles f *)
SelectFor(cfg, f) ==
    IF ~IsEnabledWithFallback(f, cfg.KesselEnabled)
    THEN "rbac"
    ELSE ModeMiddleware(EffectiveMode(cfg, GetVariant(f)))

(* first read of the selector: is Kessel enabled for this request *)
AuthSelectorReadEnabled ==
    /\ op = "idle"
    /\ UNCHANGED <<flags, dbRun, cancels>>
    /\ \E cfg \in SelectorConfigs :
        LET kesselEnabled == IsEnabledWithFallback(flags, cfg.KesselEnabled)
        IN  /\ inp' = [cfg |-> cfg, seen |-> {flags}, refreshes |-> 0]
            /\ IF ~kesselEnabled
               THEN /\ op' = "AuthSelector"
                    /\ out' = [kesselEnabled |-> FALSE, mode |-> "",
                               selected |-> "rbac"]
               ELSE /\ op' = "AuthSelector.GetVariant"
                    /\ out' = [kesselEnabled |-> TRUE, mode |-> "",
                               selected |-> ""]

(* second read of the selector: the mode, then the switch *)
AuthSelectorReadMode ==
    /\ op = "AuthSelector.GetVariant"
    /\ UNCHANGED <<flags, inp, dbRun, cancels>>
    /\ LET mode == EffectiveMode(inp.cfg, GetVariant(flags))
       IN  /\ op' = "AuthSelector"
           /\ out' = [out EXCEPT !.mode = mode,
                                 !.selected = ModeMiddleware(mode)]

(* the client's background poll replaces the toggles; a request being      *)
(* routed records the toggles that were in effect while it was routed      *)
RefreshFlags ==
    /\ op \in {"idle", "AuthSelector.GetVariant"}
    /\ \E f \in FlagStates \ {flags} :
        /\ flags' = f
        /\ IF op = "idle"
           THEN UNCHANGED inp
           ELSE /\ inp.refreshes < MaxRefreshes
                /\ inp' = [inp EXCEPT !.seen = @ \cup {f},
                                      !.refreshes = @ + 1]
    /\ UNCHANGED <<op, out, dbRun, cancels>>

----------------------------------------------------------------------------
(* ApiInternalHighlevelConnectionStatus: hosts grouped by recipient        *)

MaxHosts == 2

SatelliteIDs == {"s1", "s2"}

Nil == "nil"

(* inventory.HostDetails: the host ID is the position in the answer; the   *)
(* satellite instance ID is Nil or a satellite; RHCClientID is set or not  *)
HostFacts == [SatelliteInstanceID : SatelliteIDs \cup {Nil},
              RHCClientID : BOOLEAN]

DetailLists ==
    UNION {{[i \in 1..n |-> [ID |-> i,
                             SatelliteInstanceID |-> f[i].SatelliteInstanceID,
                             RHCClientID |-> f[i].RHCClientID]] :
               f \in [1..n -> HostFacts]} : n \in 0..MaxHosts}

(* per satellite: the sources lookup fails, has no RHC client ID, or has   *)
(* one and cloud connector answers connected, disconnected or an error     *)
SatAnswers == {"sourceErr", "noRhc", "connected", "disconnected", "connError"}

(* per direct-connect host: the answer of cloud connector *)
DirectAnswers == {"connected", "disconnected", "connError"}

IsSatellite(host) == host.SatelliteInstanceID # Nil

IsDirect(host) == ~IsSatellite(host) /\ host.RHCClientID

IsNone(host) == ~IsSatellite(host) /\ ~host.RHCClientID

sortHostsByRecipient(details) ==
    [satellite |-> SelectSeq(details, IsSatellite),
     directConnected |-> SelectSeq(details, IsDirect),
     noRhc |-> SelectSeq(details, IsNone)]

formatConnectionResponse(satID, hosts, recipientType, status) ==
    [RecipientType |-> recipientType, SatId |-> satID,
     Status |-> status, Systems |-> hosts]

HostIDs(hostDetails) == [i \in 1..Len(hostDetails) |-> hostDetails[i].ID]

(* hostsGroupedBySatellite: satellite -> the IDs of its hosts, in order *)
groupHostsBySatellite(hostDetails) ==
    [sat \in {hostDetails[i].SatelliteInstanceID : i \in 1..Len(hostDetails)} |->
        LET OfSat(host) == host.SatelliteInstanceID = sat
        IN  HostIDs(SelectSeq(hostDetails, OfSat))]

(* the orders in which a range over the map can visit its keys *)
MapOrders(keys) ==
    {o \in [1..Cardinality(keys) -> keys] :
        \A i, j \in 1..Cardinality(keys) : i # j => o[i] # o[j]}

(* the loop of createSatelliteConnectionResponses from the i-th satellite; *)
(* on a connector error it writes 500 and returns nil responses            *)
RECURSIVE SatelliteResponsesLoop(_, _, _, _, _)
SatelliteResponsesLoop(groups, order, answers, i, responses) ==
    IF i > Len(order) THEN [responses |-> responses, writes |-> <<>>]
    ELSE LET sat == order[i]
         IN  IF answers[sat] \in {"sourceErr", "noRhc"}
             THEN SatelliteResponsesLoop(groups, order, answers, i + 1,
                                         responses)
             ELSE IF answers[sat] = "connError"
             THEN [responses |-> <<>>,
                   writes |-> <<StatusInternalServerError>>]
             ELSE SatelliteResponsesLoop(
                      groups, order, answers, i + 1,
                      Append(responses,
                             formatConnectionResponse(sat, groups[sat],
                                                      "satellite",
                                                      answers[sat])))

createSatelliteConnectionResponses(groups, order, answers) ==
    SatelliteResponsesLoop(groups, order, answers, 1, <<>>)

(* the error returned is the value of ctx.NoContent, nil once the 500 is   *)
(* written, so the caller sees no error                                    *)
getSatelliteStatus(hostDetails, order, answers) ==
    createSatelliteConnectionResponses(groupHostsBySatellite(hostDetails),
                                       order, answers)

RECURSIVE DirectResponsesLoop(_, _, _, _)
DirectResponsesLoop(hostDetails, answers, i, responses) ==
    IF i > Len(hostDetails) THEN [responses |-> responses, writes |-> <<>>]
    ELSE LET host == hostDetails[i]
         IN  IF answers[host.ID] = "connError"
             THEN [responses |-> <<>>,
                   writes |-> <<StatusInternalServerError>>]
             ELSE DirectResponsesLoop(
                      hostDetails, answers, i + 1,
                      Append(responses,
                             formatConnectionResponse(Nil, <<host.ID>>,
                                                      "directConnect",
                                                      answers[host.ID])))

getDirectConnectStatus(hostDetails, answers) ==
    DirectResponsesLoop(hostDetails, answers, 1, <<>>)

getRHCStatus(hostDetails) ==
    formatConnectionResponse(Nil, HostIDs(hostDetails), "none",
                             "rhc_not_configured")

concatResponses(satellite, directConnect, noRHC) ==
    (satellite \o directConnect) \o noRHC

NoResponses == [responses |-> <<>>, writes |-> <<>>]

(* writes: the status codes of the ctx.NoContent / ctx.JSON calls of the   *)
(* request, in order; body: the entries passed to the last ctx.JSON        *)
ApiInternalHighlevelConnectionStatusResult(req, details, order, satAnswers, directAnswers) ==
    IF req # "ok"
    THEN [writes |-> <<StatusBadRequest>>, body |-> <<>>]
    ELSE IF Len(details) = 0
    THEN [writes |-> <<StatusOK>>, body |-> <<>>]
    ELSE LET sorted == sortHostsByRecipient(details)
             noRHCResponses == IF Len(sorted.noRhc) > 0
                               THEN <<getRHCStatus(sorted.noRhc)>>
                               ELSE <<>>
         IN  IF Len(sorted.satellite) = 0 /\ Len(sorted.directConnected) = 0
             THEN [writes |-> <<StatusOK>>, body |-> noRHCResponses]
             ELSE LET sat == IF Len(sorted.satellite) > 0
                             THEN getSatelliteStatus(sorted.satellite, order,
                                                     satAnswers)
                             ELSE NoResponses
                      direct == IF Len(sorted.directConnected) > 0
                                THEN getDirectConnectStatus(
                                         sorted.directConnected, directAnswers)
                                ELSE NoResponses
                  IN  [writes |-> (sat.writes \o direct.writes)
                                      \o <<StatusOK>>,
                       body |-> concatResponses(sat.responses,
                                                direct.responses,
                                                noRHCResponses)]

(* the request is rejected before inventory is asked (unreadable body,     *)
(* more than 50 hosts), inventory fails, or inventory answers              *)
RequestOutcomes == {"bodyErr", "tooManyHosts", "inventoryErr", "ok"}

SatellitesIn(details) ==
    {details[i].SatelliteInstanceID : i \in 1..Len(details)} \ {Nil}

ApiInternalHighlevelConnectionStatus ==
    /\ op = "idle"
    /\ UNCHANGED <<flags, dbRun, cancels>>
    /\ \E req \in RequestOutcomes :
        \E details \in IF req = "ok" THEN DetailLists ELSE {<<>>} :
        \E order \in MapOrders(SatellitesIn(details)) :
        \E satAnswers \in
              {a \in [SatelliteIDs -> SatAnswers] :
                  \A s \in SatelliteIDs \ SatellitesIn(details) :
                      a[s] = "noRhc"} :
        \E directAnswers \in
              {a \in [1..Len(details) -> DirectAnswers] :
                  \A i \in 1..Len(details) :
                      ~IsDirect(details[i]) => a[i] = "connected"} :
            /\ op' = "ApiInternalHighlevelConnectionStatus"
            /\ inp' = [req |-> req, details |-> details, order |-> order,
                       satAnswers |-> satAnswers,
                       directAnswers |-> directAnswers]
            /\ out' = ApiInternalHighlevelConnectionStatusResult(
                          req, details, order, satAnswers, directAnswers)

----------------------------------------------------------------------------
(* ApiRunsCancelWithKessel: find the run, test its status, save it         *)

MaxCancels == 2

CancelRequests == 1..MaxCancels

RunStatuses == {"running", "success", "failure", "timeout", "canceled"}

NoRun == [account |-> "", status |-> ""]

NoCancels ==
    [r \in CancelRequests |-> [pc |-> "idle", found |-> NoRun, resp |-> 0]]

CancelDone(r, status) ==
    cancels' = [cancels EXCEPT ![r] = [@ EXCEPT !.pc = "done",
                                                !.resp = status]]

(* database.Where("id = ? AND account = ?").First(&run), then the test of  *)
(* the status on the copy that was read                                    *)
CancelFind(r) ==
    /\ cancels[r].pc = "idle"
    /\ UNCHANGED <<op, inp, out, flags, dbRun>>
    /\ \E orgID \in Tenants, dbErr \in BOOLEAN :
        IF dbErr
        THEN CancelDone(r, StatusInternalServerError)
        ELSE IF orgID # dbRun.account
        THEN CancelDone(r, StatusNotFound)
        ELSE IF dbRun.status # "running"
        THEN CancelDone(r, StatusBadRequest)
        ELSE cancels' = [cancels EXCEPT ![r] = [@ EXCEPT !.pc = "found",
                                                         !.found = dbRun]]

(* run.Status = "canceled"; database.Save(&run): every column of the row  *)
(* is written from the copy, whatever the row holds by now                 *)
Save(row, found) ==
    [found EXCEPT !.status = "canceled"]

CancelSave(r) ==
    /\ cancels[r].pc = "found"
    /\ UNCHANGED <<op, inp, out, flags>>
    /\ \E dbErr \in BOOLEAN :
        IF dbErr
        THEN /\ CancelDone(r, StatusInternalServerError)
             /\ UNCHANGED dbRun
        ELSE /\ dbRun' = Save(dbRun, cancels[r].found)
             /\ CancelDone(r, StatusOK)

(* the run's own progress: the status reported for a running run is stored *)
UpdateStatus ==
    /\ dbRun.status = "running"
    /\ UNCHANGED <<op, inp, out, flags, cancels>>
    /\ \E s \in RunStatuses \ {"running", "canceled"} :
        dbRun' = [dbRun EXCEPT !.status = s]

----------------------------------------------------------------------------
Finish ==
    /\ op # "idle"
    /\ UNCHANGED <<flags, dbRun, cancels>>
    /\ op' = "idle"
    /\ inp' = NoInput
    /\ out' = NoInput

Init ==
    /\ op = "idle"
    /\ inp = NoInput
    /\ out = NoInput
    /\ flags = DefaultFlags
    /\ dbRun = [account |-> "org1", status |-> "running"]
    /\ cancels = NoCancels

Next ==
    \/ EnforceKesselPermissions
    \/ ApiRunsListWithServiceFiltering
    \/ ApiRunsCreateWithServiceCheck
    \/ ClientCheckBatch
    \/ IssueChecks
    \/ CompareServiceAccess
    \/ ApiInternalHighlevelConnectionStatus
    \/ FilterAuthorizedResources
    \/ ApplyServiceFilter
    \/ ResolveAttributePermissions
    \/ RunsList
    \/ PlanRunsList
    \/ ResolveServicesTwice
    \/ Finish

Spec == Init /\ [][Next]_vars

(* request routing by the AuthSelector while the toggles are polled *)
InitSelector ==
    /\ op = "idle"
    /\ inp = NoInput
    /\ out = NoInput
    /\ flags \in FlagStates
    /\ dbRun = [account |-> "org1", status |-> "running"]
    /\ cancels = NoCancels

NextSelector ==
    \/ AuthSelectorReadEnabled
    \/ AuthSelectorReadMode
    \/ RefreshFlags
    \/ Finish

SpecSelector == InitSelector /\ [][NextSelector]_vars

(* cancel requests on one run, interleaved with each other and with the    *)
(* status updates of the run                                               *)
InitCancel ==
    /\ op = "idle"
    /\ inp = NoInput
    /\ out = NoInput
    /\ flags = DefaultFlags
    /\ dbRun \in [account : {"org1"}, status : RunStatuses]
    /\ cancels = NoCancels

NextCancel ==
    \/ \E r \in CancelRequests : CancelFind(r)
    \/ \E r \in CancelRequests : CancelSave(r)
    \/ UpdateStatus

SpecCancel == InitCancel /\ [][NextCancel]_vars

----------------------------------------------------------------------------
(* Properties                                                              *)

(* what the checks of a request answered, read from the request alone *)
AnswerOf(client, a) ==
    IF client.kind = "mock"
    THEN (IF client.allowAll THEN "allow" ELSE "deny")
    ELSE a

InServiceList == op = "ApiRunsListWithServiceFiltering"
OrgAnswer == AnswerOf(inp.client, inp.answers[1])
SvcAnswer(i) == AnswerOf(inp.client, inp.answers[i + 1])
SvcIdx == 1..NumKnown
Range(s) == {s[i] : i \in 1..Len(s)}

(* C1: in the Kessel enforcement middleware the handler runs only after    *)
(* the permission check of the request returned allowed without an error;  *)
(* a check that errors is answered 503, a check that denies 403, and in    *)
(* both cases the handler is not invoked.                                  *)
C1_FailClosed ==
    op = "EnforceKesselPermissions" =>
        LET a == AnswerOf(inp.client, inp.answer)
            reachesCheck == /\ inp.orgID # "" /\ inp.username # ""
                            /\ inp.extractor # "failing"
        IN  /\ out.handlerRan => (reachesCheck /\ out.checked /\ a = "allow")
            /\ (reachesCheck /\ IsErr(a)) =>
                   (out.status = StatusServiceUnavailable /\ ~out.handlerRan)
            /\ (reachesCheck /\ a = "deny") =>
                   (out.status = StatusForbidden /\ ~out.handlerRan)

C1_Witness ==
    /\ op = "EnforceKesselPermissions"
    /\ inp.client.kind = "impl"
    /\ inp.answer = "error"
    /\ out.checked
    /\ out.status = StatusServiceUnavailable
    /\ ~out.handlerRan

(* C2: unrestricted access and zero access are kept apart.  A successful   *)
(* GetAllowedServices reports filterRequired=false only when the org-level *)
(* check allowed; when the org-level check denies and every per-service    *)
(* check denies it reports filterRequired=true with an empty list, and the *)
(* runs-list endpoint then returns zero runs without running the query;    *)
(* an unfiltered query is run only for a caller the org-level check        *)
(* allowed.                                                                *)
C2_UnrestrictedVsZero ==
    InServiceList =>
        /\ (~out.gas.err /\ ~out.gas.filterRequired) => OrgAnswer = "allow"
        /\ (OrgAnswer = "deny" /\ \A i \in SvcIdx : SvcAnswer(i) = "deny") =>
               /\ ~out.gas.err
               /\ out.gas.filterRequired
               /\ out.gas.services = <<>>
               /\ out.status = StatusOK
               /\ out.runs = "empty"
               /\ ~out.query.executed
        /\ (OrgAnswer = "deny" /\ \A i \in SvcIdx : SvcAnswer(i) # "allow") =>
               ~out.query.executed
        /\ (out.query.executed /\ ~out.query.filtered) => OrgAnswer = "allow"

C2_Witness ==
    /\ InServiceList
    /\ inp.client.kind = "impl"
    /\ OrgAnswer = "deny"
    /\ \A i \in SvcIdx : SvcAnswer(i) = "deny"
    /\ out.gas.filterRequired
    /\ out.gas.services = <<>>
    /\ out.runs = "empty"

C4_PartialFailureTolerated ==
    (/\ InServiceList
     /\ OrgAnswer = "deny"
     /\ \A i \in SvcIdx : SvcAnswer(i) # "canceled"
     /\ \E i \in SvcIdx : SvcAnswer(i) = "error"
     /\ \E i \in SvcIdx : SvcAnswer(i) \in {"allow", "deny"})
    => /\ ~out.gas.err
       /\ out.gas.filterRequired
       /\ Range(out.gas.services) =
              {KnownServices[i] : i \in {j \in SvcIdx : SvcAnswer(j) = "allow"}}

(* C5: when the checks cannot be completed (the org-level check errors,    *)
(* every per-service check errors, or the context is cancelled while a     *)
(* check is in flight) GetAllowedServices returns an error and no          *)
(* decision: no allowed list, no query, a 503 from the endpoint.           *)
C5_ChecksNotCompleted ==
    InServiceList /\ inp.client.kind = "impl" =>
        LET orgFailed == IsErr(OrgAnswer)
            allFailed == /\ OrgAnswer = "deny"
                         /\ \A i \in SvcIdx : IsErr(SvcAnswer(i))
            cancelled == /\ OrgAnswer = "deny"
                         /\ \E i \in SvcIdx : SvcAnswer(i) = "canceled"
        IN  (orgFailed \/ allFailed \/ cancelled) =>
                /\ out.gas.err
                /\ out.gas.services = <<>>
                /\ out.status = StatusServiceUnavailable
                /\ ~out.query.executed
                /\ out.runs = "none"

C5_Witness ==
    /\ InServiceList
    /\ inp.client.kind = "impl"
    /\ OrgAnswer = "deny"
    /\ SvcAnswer(1) = "allow"
    /\ SvcAnswer(2) = "canceled"
    /\ out.gas.err
    /\ out.gas.services = <<>>
    /\ out.status = StatusServiceUnavailable

(* C6: when the org-level check allows, GetAllowedServices reports         *)
(* unrestricted access whatever the per-service checks answer, and the     *)
(* query is not narrowed by a service filter.                              *)
C6_OrgAllowNotNarrowed ==
    (InServiceList /\ OrgAnswer = "allow") =>
        /\ ~out.gas.err
        /\ ~out.gas.filterRequired
        /\ out.query.executed
        /\ ~out.query.filtered

C6_Witness ==
    /\ InServiceList
    /\ inp.client.kind = "impl"
    /\ OrgAnswer = "allow"
    /\ SvcAnswer(1) = "deny"
    /\ SvcAnswer(2) = "error"
    /\ ~out.gas.filterRequired
    /\ out.query.executed
    /\ ~out.query.filtered

InAttributeResolve == op = "GetAllowedServicesFromPermissions"

(* C10: for every permission list with at least one entry that carries the *)
(* required permission name and an empty filter list, the attribute-based  *)
(* resolution yields unrestricted access (all services), whatever other    *)
(* entries are present.                                                    *)
C10_UnrestrictedEntryWins ==
    (/\ InAttributeResolve
     /\ \E i \in 1..Len(inp.permissions) :
            /\ inp.permissions[i].permission = RunReadPermission
            /\ inp.permissions[i].resourceDefinitions = <<>>)
    => Range(out.services) = Range(PlanKnownServices)

InRunsList == op = "RunsList"
InPlanRunsList == op = "PlanRunsList"

(* the outcome of a request as the caller sees it *)
Observable(o) ==
    [status |-> o.status, handlerRan |-> o.handlerRan, query |-> o.query]

(* C7: in dual mode with RBAC authoritative (auth.system = "both") the     *)
(* outcome of every request - whether the handler runs, the response, the  *)
(* query - is the outcome the RBAC chain alone gives for the same RBAC     *)
(* answer, whether Kessel allows, denies or errors.                        *)
C7_DualModeIsRbac ==
    (InRunsList /\ inp.cfg.authSystem = "both") =>
        \A order \in KeyOrders :
            Observable(out) =
                Observable(RunsListResult(
                    [inp.cfg EXCEPT !.authSystem = "rbac"], inp.id, inp.rbac,
                    NoKenv, order, inp.dbErr))

C7_Witness ==
    /\ InRunsList
    /\ inp.cfg.authSystem = "both"
    /\ inp.cfg.kesselEnabled
    /\ inp.cfg.impl = "impl"
    /\ inp.id.orgID # ""
    /\ PrincipalOK(inp.id.type)
    /\ ~inp.kenv.wsErr
    /\ inp.kenv.answers["remediations"] = "error"
    /\ inp.rbac.err = "none"
    /\ Len(inp.rbac.access) > 0
    /\ out.handlerRan
    /\ out.status = StatusOK

(* C8: when the workspace lookup fails with Kessel enforcing and fallback  *)
(* disabled, the request ends in an error and the run query is not         *)
(* executed - in particular not without a service filter.                  *)
C8_WorkspaceFailureIsError ==
    /\ (/\ InRunsList
        /\ inp.cfg.authSystem = "kessel"
        /\ inp.kenv.wsErr)
       => /\ out.status = StatusInternalServerError
          /\ ~out.handlerRan
          /\ ~out.query.executed
    /\ (/\ InPlanRunsList
        /\ inp.cfg.kesselEnabled
        /\ ~inp.cfg.fallbackRbac
        /\ inp.lookup
        /\ inp.kenv.wsErr)
       => /\ out.status >= StatusInternalServerError
          /\ ~out.query.executed

(* C9: with an empty permission list the attribute-based decision is       *)
(* deny-all: the resolution yields the empty allowed set, and a request    *)
(* whose RBAC access list is empty is answered 403 before any query, so    *)
(* the empty result is not treated as unrestricted.                        *)
C9_EmptyPermissionsDenyAll ==
    /\ (InAttributeResolve /\ inp.permissions = <<>>) =>
           out.services = <<>>
    /\ (/\ InRunsList
        /\ SelectAuthorizationMiddleware(inp.cfg.authSystem)
               \in {"rbac", "both"}
        /\ inp.rbac = RbacAnswer("none", <<>>))
       => /\ out.status = StatusForbidden
          /\ ~out.handlerRan
          /\ ~out.query.executed
    /\ (InPlanRunsList /\ inp.rbac = RbacAnswer("none", <<>>))
       => /\ out.status = StatusForbidden
          /\ ~out.handlerRan
          /\ ~out.query.executed

C9_Witness ==
    /\ InRunsList
    /\ inp.cfg.authSystem = "rbac"
    /\ inp.rbac = RbacAnswer("none", <<>>)
    /\ GetAllowedServicesFromPermissions(inp.rbac.access,
                                         PlanKnownServices) = <<>>
    /\ out.status = StatusForbidden
    /\ ~out.query.executed

(* the filters of a permission list are all equal/in filters on "service", *)
(* and no run:read entry is unrestricted (empty filter list)               *)
OnlyServiceFilters(permissions) ==
    \A i \in 1..Len(permissions) :
        /\ \A j \in 1..Len(permissions[i].resourceDefinitions) :
               LET f == permissions[i].resourceDefinitions[j]
               IN  f.key = "service" /\ f.operation \in {"equal", "in"}
        /\ permissions[i].permission = RunReadPermission =>
               Len(permissions[i].resourceDefinitions) > 0

(* the union of the filter values of the run:read entries *)
FilterUnion(permissions) ==
    UNION {UNION {Range(permissions[i].resourceDefinitions[j].value) :
                      j \in 1..Len(permissions[i].resourceDefinitions)} :
               i \in {k \in 1..Len(permissions) :
                          permissions[k].permission = RunReadPermission}}

(* the catalog services a permission names in the per-service format *)
NamedServices(permissions) ==
    {s \in Range(PlanKnownServices) :
         \E i \in 1..Len(permissions) :
             permissions[i].permission = NewFormatPerm(s)}

(* C11 as stated: for permission lists with only equal/in filters on       *)
(* "service", the allowed services are the union of the filter values of   *)
(* the run:read entries that are in the catalog.                           *)
C11_FilterUnionOnly ==
    (InAttributeResolve /\ OnlyServiceFilters(inp.permissions)) =>
        Range(out.services)
            = FilterUnion(inp.permissions) \cap Range(PlanKnownServices)

(* C11 amended: for permission lists with only equal/in filters on         *)
(* "service", the allowed services are the catalog services that are a     *)
(* filter value of some run:read entry (entries of the same name are       *)
(* unioned) or that a permission names in the per-service format; each is  *)
(* listed once and a value outside the catalog never appears.              *)
C11_FilterUnionAndNamed ==
    (InAttributeResolve /\ OnlyServiceFilters(inp.permissions)) =>
        /\ Range(out.services)
               = (FilterUnion(inp.permissions)
                      \cup NamedServices(inp.permissions))
                 \cap Range(PlanKnownServices)
        /\ Len(out.services) = Cardinality(Range(out.services))

C11_Witness ==
    /\ InAttributeResolve
    /\ OnlyServiceFilters(inp.permissions)
    /\ Len(inp.permissions) = 2
    /\ inp.permissions[1]
           = Access(RunReadPermission, <<EqualFilter("service",
                                                     "config-manager")>>)
    /\ inp.permissions[2]
           = Access(RunReadPermission,
                    <<InFilter("service", <<"tasks", "config_manager">>)>>)
    /\ out.services = <<"config_manager", "tasks">>

(* C12: the per-service checks of one resolution are issued concurrently:  *)
(* a check that fails (or is slow) does not prevent the issuing of the     *)
(* other checks, so every resolution that reaches the per-service checks   *)
(* issues one check per catalog service.                                   *)
C12_AllChecksIssued ==
    (InServiceList /\ inp.client.kind = "impl" /\ OrgAnswer = "deny") =>
        ChecksIssued(Tail1(inp.answers), 1) = NumKnown

InAuthSelector == op = "AuthSelector"

(* C13: mode selection for one request reads a single snapshot of the      *)
(* toggles: the chain selected is the one the selector gives for one of    *)
(* the toggle states in effect while the request was routed (the old or    *)
(* the new one), never a chain that mixes values of both.                  *)
C13_SingleSnapshot ==
    InAuthSelector =>
        \E f \in inp.seen : out.selected = SelectFor(inp.cfg, f)

InResolveTwice == op = "GetServicesForPermissions"

NoDuplicates(s) == \A i, j \in 1..Len(s) : s[i] = s[j] => i = j

(* C14: "config-manager" and "config_manager" are the same service: the    *)
(* allowed-service list derived from the permission check results lists    *)
(* each service at most once, in the normalized (underscore) form.         *)
C14_OneNormalizedEntry ==
    /\ (InRunsList /\ out.kesselAuth.set) =>
           /\ NoDuplicates(out.kesselAuth.AllowedServices)
           /\ "config-manager" \notin Range(out.kesselAuth.AllowedServices)
    /\ InResolveTwice =>
           /\ NoDuplicates(out.first)
           /\ "config-manager" \notin Range(out.first)

(* C15: resolution is idempotent: two computations of the allowed services *)
(* from the same permission check results give identical lists, order      *)
(* included.                                                               *)
C15_Idempotent ==
    InResolveTwice => out.first = out.second

InMiddleware == op = "EnforceKesselPermissions"
InRunsCreate == op = "ApiRunsCreateWithServiceCheck"

C17_BothChecksRun ==
    (InRunsList /\ inp.cfg.authSystem = "both" /\ inp.cfg.kesselEnabled) =>
        LET run == MiddlewaresRun(inp.cfg, inp.rbac)
        IN  run.rbac /\ run.kessel

(* C18: RBAC is the safe default: Kessel alone decides a request only when *)
(* Kessel is enabled and the mode is exactly "kessel"; when the Kessel     *)
(* flag is off, or the mode is unset or not recognised, the RBAC           *)
(* middleware enforces the request.                                        *)
C18_RbacSafeDefault ==
    InRunsList =>
        (~(inp.cfg.kesselEnabled /\ inp.cfg.authSystem = "kessel") =>
             MiddlewaresRun(inp.cfg, inp.rbac).rbac)

InCheckBatch == op = "CheckBatch"
InFilterAuthorized == op = "FilterAuthorizedResources"

(* what the service, or the mock, answers for a resource *)
AllowedOn(client, truth, id) ==
    IF client.kind = "mock" THEN client.allowAll ELSE truth[id] = "allow"

(* C19: CheckBatch is all-or-nothing and order-preserving: it returns      *)
(* either an error and no results, or no error and exactly one result per  *)
(* input check, results[i] being the answer for checks[i].                 *)
C19_AllOrNothingInOrder ==
    InCheckBatch =>
        /\ out.err => out.results = <<>>
        /\ out.err <=> (inp.client.kind = "impl" /\ inp.failAt # 0)
        /\ ~out.err =>
               /\ Len(out.results) = Len(inp.ids)
               /\ \A i \in 1..Len(inp.ids) :
                      out.results[i]
                          = AllowedOn(inp.client, inp.truth, inp.ids[i])

C19_Witness ==
    /\ InCheckBatch
    /\ inp.client.kind = "impl"
    /\ inp.ids = <<"run-2", "run-1", "run-2">>
    /\ inp.truth["run-1"] = "allow"
    /\ inp.truth["run-2"] = "deny"
    /\ inp.failAt = 0
    /\ out.results = <<FALSE, TRUE, FALSE>>
    /\ ~out.err

(* C20: FilterAuthorizedResources returns exactly the input IDs whose      *)
(* check returned allowed, in input order; an empty input returns an empty *)
(* list without calling the client; a client error returns an error and    *)
(* no IDs.                                                                 *)
C20_OnlyAuthorizedIDs ==
    InFilterAuthorized =>
        LET Allowed(id) == AllowedOn(inp.client, inp.truth, id)
            failed == inp.client.kind = "impl" /\ inp.failAt # 0
        IN  /\ Len(inp.ids) = 0 =>
                   (out.authorized = <<>> /\ ~out.err /\ ~out.called)
            /\ failed => (out.err /\ out.authorized = <<>>)
            /\ ~failed =>
                   (~out.err /\ out.authorized = SelectSeq(inp.ids, Allowed))

C20_Witness ==
    /\ InFilterAuthorized
    /\ inp.client.kind = "impl"
    /\ inp.ids = <<"run-3", "run-1", "run-2">>
    /\ inp.truth["run-1"] = "allow"
    /\ inp.truth["run-2"] = "deny"
    /\ inp.truth["run-3"] = "allow"
    /\ inp.failAt = 0
    /\ out.authorized = <<"run-3", "run-1">>
    /\ ~out.err

(* the Kessel calls of a plan-controller request all failed *)
PlanKesselFailed ==
    /\ inp.cfg.kesselEnabled
    /\ inp.lookup
    /\ \/ inp.kenv.wsErr
       \/ \A i \in 1..Len(PlanKnownServices) : inp.kenv.answers[i] = "error"

(* C21: on a Kessel failure the RBAC decision is substituted only if       *)
(* fallback was explicitly enabled: with fallback off, and under the       *)
(* default configuration of the fallback option, a Kessel failure denies   *)
(* the request - an error status and no query.                             *)
C21_FailClosedByDefault ==
    (/\ InPlanRunsList
     /\ PlanKesselFailed
     /\ (~inp.cfg.fallbackRbac \/ inp.cfg.fallbackRbac = DefaultFallbackRbac))
    => /\ out.status >= StatusBadRequest
       /\ ~out.query.executed

(* C22: the enforcement middleware picks its client as documented for      *)
(* kessel.impl: the allow-all mock only when kessel.impl is "mock", the    *)
(* real client for every other value - the choice                          *)
(* NewKesselClientFromConfig makes.                                        *)
C22_ClientSelectionAgrees ==
    InMiddleware =>
        /\ inp.client = NewKesselClientFromConfig(inp.impl)
        /\ inp.client.kind = "mock" => inp.impl = "mock"

InIssueChecks == op = "IssueChecks"

C24_NeverUnchecked ==
    (InRunsList /\ out.handlerRan) =>
        LET run == MiddlewaresRun(inp.cfg, inp.rbac)
            rbacAllowed == run.rbac /\ EnforcePermissions(inp.rbac).pass
            kesselAllowed == /\ run.kessel
                             /\ inp.cfg.kesselEnabled
                             /\ out.kesselAuth.set
                             /\ Len(out.kesselAuth.AllowedServices) > 0
        IN  rbacAllowed \/ kesselAllowed

InCompareServiceAccess == op = "CompareServiceAccess"

(* C26: HasServiceAccess and GetAllowedServices agree: against the same    *)
(* check answers and for every service name, HasServiceAccess returns true *)
(* exactly when GetAllowedServices reports that no filtering is required   *)
(* or lists that service.                                                  *)
C26_HelpersAgree ==
    InCompareServiceAccess =>
        ((out.hsa.allowed /\ ~out.hsa.err)
         <=> /\ ~out.gas.err
             /\ \/ ~out.gas.filterRequired
                \/ inp.service \in Range(out.gas.services))

(* C27: a run's status changes to "canceled" only from "running": under    *)
(* any interleaving of cancel requests with each other and with other      *)
(* status updates, a run that has left "running" is never overwritten with *)
(* "canceled", and a cancel request on such a run gets 400 and leaves the  *)
(* run unchanged.                                                          *)
C27_CanceledOnlyFromRunning ==
    [][/\ (dbRun'.status = "canceled" /\ dbRun.status # "canceled")
              => dbRun.status = "running"
       /\ \A r \in CancelRequests :
              (/\ cancels[r].pc # "done"
               /\ cancels'[r].pc = "done"
               /\ cancels'[r].resp \in {StatusOK, StatusBadRequest}
               /\ dbRun.status # "running")
              => /\ cancels'[r].resp = StatusBadRequest
                 /\ dbRun' = dbRun]_vars

InHighLevelStatus == op = "ApiInternalHighlevelConnectionStatus"

(* C28: every request to the high-level connection status endpoint writes  *)
(* exactly one HTTP response: once a status code has been written, also on *)
(* a connector error while fetching satellite or direct-connect status, no *)
(* second response is written for that request.                            *)
C28_OneResponsePerRequest ==
    InHighLevelStatus => Len(out.writes) = 1

RecipientRank(recipientType) ==
    CASE recipientType = "satellite" -> 1
      [] recipientType = "directConnect" -> 2
      [] OTHER -> 3

ExpectedRecipient(host) ==
    IF host.SatelliteInstanceID # Nil THEN "satellite"
    ELSE IF host.RHCClientID THEN "directConnect"
    ELSE "none"

EntriesWith(hostID) ==
    {e \in 1..Len(out.body) :
        \E k \in 1..Len(out.body[e].Systems) : out.body[e].Systems[k] = hostID}

(* C29: in a 200 response of the high-level connection status endpoint,    *)
(* every host returned by inventory appears in the systems of exactly one  *)
(* recipient entry (satellite if it has a satellite instance ID, otherwise *)
(* direct-connect if it has an RHC client ID, otherwise none) and the      *)
(* entries are ordered satellite, direct-connect, none.                    *)
C29_EveryHostInOneEntry ==
    (InHighLevelStatus /\ Head(out.writes) = StatusOK) =>
        /\ \A i \in 1..Len(inp.details) :
               /\ Cardinality(EntriesWith(inp.details[i].ID)) = 1
               /\ \A e \in EntriesWith(inp.details[i].ID) :
                      out.body[e].RecipientType
                          = ExpectedRecipient(inp.details[i])
        /\ \A e, f \in 1..Len(out.body) :
               e < f => RecipientRank(out.body[e].RecipientType)
                            <= RecipientRank(out.body[f].RecipientType)

====
